---- MODULE Spec2Model ----
(***************************************************************************)
(* Course Pathways dashboard (src/app.py): the identifier assignment       *)
(* (_slugify, make_unique_ids), the track lookups (node_tracks,            *)
(* primary_track, edge_tracks), the presentation deriver                   *)
(* (build_cytoscape_elements) and the selection state kept in              *)
(* st.session_state across script runs.                                    *)
(*                                                                         *)
(* A Python str is a sequence of one-character strings; None is the        *)
(* one-element sequence NoneVal, which no str equals.  A dict is a record  *)
(* [keys, val]: keys is the insertion order, val the mapping.              *)
(***************************************************************************)
EXTENDS Integers, Sequences, FiniteSets, TLC

VARIABLES
    graphs,         \* school name -> graph document (the data/*.json files)
    school,         \* value of the 'Choose a school' selectbox
    session_state,  \* st.session_state: key -> value, keys added on first run
    cy_graph,       \* value held by the cytoscape widget keyed 'cy_graph'
    elements,       \* elements handed to the widget by the last script run
    render,         \* arguments of the last build_cytoscape_elements call
    event,          \* the interaction that caused the last script run
    courses,        \* argument of a make_unique_ids call
    ids,            \* its result
    et_args,        \* arguments of an edge_tracks call
    et,             \* its result
    pc              \* position of a single call: "start" or "done"

vars == <<graphs, school, session_state, cy_graph, elements, render, event,
          courses, ids, et_args, et, pc>>

----------------------------------------------------------------------------
(* Python values *)

NoneVal == <<"None">>

Truthy(x) == x # NoneVal /\ x # <<>>

Range(s) == {s[i] : i \in DOMAIN s}

ARROW == "→"

EmptyDict == [keys |-> <<>>, val |-> <<>>]

DictHas(d, k) == k \in DOMAIN d.val

DictGet(d, k) == IF DictHas(d, k) THEN d.val[k] ELSE NoneVal

DictSet(d, k, v) ==
    [keys |-> IF DictHas(d, k) THEN d.keys ELSE Append(d.keys, k),
     val  |-> (k :> v) @@ d.val]

RECURSIVE Digits(_)
Digits(n) ==
    LET d == <<"0", "1", "2", "3", "4", "5", "6", "7", "8", "9">>
    IN  IF n < 10 THEN <<d[n + 1]>> ELSE Digits(n \div 10) \o <<d[(n % 10) + 1]>>

----------------------------------------------------------------------------
(* _slugify *)

Whitespace == {" "}

UpperToLower == [c \in {"A", "B", "C"} |->
                    CASE c = "A" -> "a" [] c = "B" -> "b" [] c = "C" -> "c"]

AlnumLower == {"a", "b", "c", "d", "e", "f", "g", "h", "i", "j", "k", "l", "m",
               "n", "o", "p", "q", "r", "s", "t", "u", "v", "w", "x", "y", "z",
               "0", "1", "2", "3", "4", "5", "6", "7", "8", "9"}

RECURSIVE LStrip(_, _)
LStrip(s, chars) ==
    IF s # <<>> /\ Head(s) \in chars THEN LStrip(Tail(s), chars) ELSE s

RECURSIVE RStrip(_, _)
RStrip(s, chars) ==
    IF s # <<>> /\ s[Len(s)] \in chars
    THEN RStrip(SubSeq(s, 1, Len(s) - 1), chars) ELSE s

Strip(s, chars) == RStrip(LStrip(s, chars), chars)

Lower(s) == [i \in DOMAIN s |->
                IF s[i] \in DOMAIN UpperToLower THEN UpperToLower[s[i]] ELSE s[i]]

\* re.sub(pattern+, '_', s): every maximal run of characters in `run` becomes "_"
RECURSIVE SubRuns(_, _)
SubRuns(s, run) ==
    IF s = <<>> THEN <<>>
    ELSE IF Head(s) \in run
         THEN <<"_">> \o SubRuns(LStrip(s, run), run)
         ELSE <<Head(s)>> \o SubRuns(Tail(s), run)

NODE_FALLBACK == <<"n", "o", "d", "e">>

\* re.sub(r'[^a-z0-9]+', '_', s)
SubNonAlnum(s) == SubRuns(s, Range(s) \ AlnumLower)

\* s or 'node'
OrNode(s) == IF s = <<>> THEN NODE_FALLBACK ELSE s

_slugify(s) ==
    OrNode(Strip(SubRuns(SubNonAlnum(Lower(Strip(s, Whitespace))), {"_"}), {"_"}))

----------------------------------------------------------------------------
(* make_unique_ids *)

HexLen == 8

HexDigits == <<"0", "1", "2", "3", "4", "5", "6", "7", "8", "9",
               "a", "b", "c", "d", "e", "f">>

CharCode == [c \in {"a", "b", "c", "A", "B", "C", " ", "-", "_", "2"} |->
                CASE c = "a" -> 97 [] c = "b" -> 98 [] c = "c" -> 99
                  [] c = "A" -> 65 [] c = "B" -> 66 [] c = "C" -> 67
                  [] c = " " -> 32 [] c = "-" -> 45 [] c = "_" -> 95
                  [] c = "2" -> 50]

RECURSIVE ByteSum(_)
ByteSum(s) == IF s = <<>> THEN 0 ELSE CharCode[Head(s)] + ByteSum(Tail(s))

\* hashlib.md5(c.encode('utf-8')).hexdigest()[:8]: a fixed function of the
\* name's bytes giving HexLen lowercase hex characters, and not injective.
\* MD5 is not reproduced; the digest here is a checksum of the bytes, so that
\* equal names agree and some distinct names collide.
md5_hexdigest8(c) ==
    LET n == ByteSum(c) + Len(c)
    IN  [i \in 1..HexLen |-> HexDigits[((n \div i) % 16) + 1]]

Suffixed(base, tail) == base \o <<"_">> \o tail

RECURSIVE NextFree(_, _, _, _)
NextFree(base, uid, k, used) ==
    IF uid \notin used THEN uid
    ELSE NextFree(base, Suffixed(base, Digits(k)), k + 1, used)

\* uid = base; if uid in used: uid = f"{base}_{h}"
FirstUid(c, base, used) ==
    IF base \in used THEN Suffixed(base, md5_hexdigest8(c)) ELSE base

\* a variant that takes the slug as it is
UniqueUid_NoDisambiguation(c, base, used) == base

\* the identifier one pass of the loop body gives course c
UniqueUid(c, base, used) == NextFree(base, FirstUid(c, base, used), 2, used)

AddCourse(acc, c, uid) ==
    [course_to_uid |-> DictSet(acc.course_to_uid, c, uid),
     used          |-> acc.used \cup {uid}]

\* for c in courses: ...; acc is [course_to_uid, used] after the first n
RECURSIVE AssignIds(_, _)
AssignIds(cs, n) ==
    IF n = 0 THEN [course_to_uid |-> EmptyDict, used |-> {}]
    ELSE CHOOSE r \in {AddCourse(acc, cs[n], UniqueUid(cs[n], base, acc.used)) :
                           acc \in {AssignIds(cs, n - 1)},
                           base \in {_slugify(cs[n])}} : TRUE

\* {v: k for k, v in d.items()}, over the first n items
RECURSIVE InvertDict(_, _)
InvertDict(d, n) ==
    IF n = 0 THEN EmptyDict
    ELSE CHOOSE r \in {DictSet(acc, d.val[d.keys[n]], d.keys[n]) :
                           acc \in {InvertDict(d, n - 1)}} : TRUE

IdMaps(course_to_uid) ==
    [course_to_uid |-> course_to_uid,
     uid_to_course |-> InvertDict(course_to_uid, Len(course_to_uid.keys))]

make_unique_ids(cs) ==
    CHOOSE r \in {IdMaps(acc.course_to_uid) : acc \in {AssignIds(cs, Len(cs))}} :
        TRUE

----------------------------------------------------------------------------
(* Constants of the page *)

SCHOOL_FILES == <<"Rural High", "Magnet High">>

TRACK_COLORS ==
    [t \in {"Special education", "Lower-basic", "Upper-basic", "Regular",
            "Accelerated", "Honors", "Pre-IB", "IB-general", "IB-standard",
            "IB-honors"} |->
        CASE t = "Special education" -> "#7B61FF"
          [] t = "Lower-basic"       -> "#FF8C42"
          [] t = "Upper-basic"       -> "#F9C74F"
          [] t = "Regular"           -> "#43AA8B"
          [] t = "Accelerated"       -> "#277DA1"
          [] t = "Honors"            -> "#577590"
          [] t = "Pre-IB"            -> "#4D908E"
          [] t = "IB-general"        -> "#90BE6D"
          [] t = "IB-standard"       -> "#F9844A"
          [] t = "IB-honors"         -> "#F94144"]

NODE_FILL_DEFAULT == "#2B2D42"
DIM_COLOR         == "#D0D4DC"
EDGE_COLOR        == "#8D99AE"
EDGE_HIGHLIGHT    == "#111827"
NODE_BORDER       == "#111827"

\* opacities in hundredths
NODE_OPACITY      == 100
NODE_OPACITY_DIM  == 18
EDGE_OPACITY      == 85
EDGE_OPACITY_FOCUS == 100
EDGE_OPACITY_DIM  == 10
BORDER_WIDTH      == 2
BORDER_WIDTH_SELECTED == 6

TAG_DIM      == <<"d", "i", "m">>
TAG_SELECTED == <<"s", "e", "l", "e", "c", "t", "e", "d">>
TAG_SELFLOOP == <<"s", "e", "l", "f", "l", "o", "o", "p">>
TAG_FOCUS    == <<"f", "o", "c", "u", "s">>

----------------------------------------------------------------------------
(* str.join, str.split, sorted, friendly_percent *)

RECURSIVE Join(_, _)
Join(parts, sep) ==
    IF parts = <<>> THEN <<>>
    ELSE IF Len(parts) = 1 THEN parts[1]
         ELSE parts[1] \o sep \o Join(Tail(parts), sep)

\* s.split(sep) for a one-character separator: always at least one part
RECURSIVE Split(_, _)
Split(s, sep) ==
    IF \A i \in DOMAIN s : s[i] # sep THEN <<s>>
    ELSE LET i == CHOOSE j \in DOMAIN s :
                      s[j] = sep /\ \A k \in 1..(j - 1) : s[k] # sep
         IN  <<SubSeq(s, 1, i - 1)>> \o Split(SubSeq(s, i + 1, Len(s)), sep)

\* f'{s}→{t}'
EdgeId(s, t) == s \o <<ARROW>> \o t

\* code-point order of the track names
TRACK_SORT_ORDER == <<"Accelerated", "Honors", "IB-general", "IB-honors",
                      "IB-standard", "Lower-basic", "Pre-IB", "Regular",
                      "Special education", "Upper-basic">>

\* sorted(S) for a set of track names
Sorted(S) == SelectSeq(TRACK_SORT_ORDER, LAMBDA t : t \in S)

\* f"{x * 100:.0f}%" for x = p / 100: probabilities are whole hundredths
friendly_percent(p) == Digits(p) \o <<"%">>

----------------------------------------------------------------------------
(* node_tracks, primary_track, edge_tracks.  tracks is a dict from track   *)
(* name to the set of its courses (the code reads each list as a set).     *)

node_tracks(course, tracks) ==
    SelectSeq(tracks.keys, LAMBDA t : course \in tracks.val[t])

\* <<>> for None, <<t>> for track t
primary_track(course, tracks) ==
    LET ts == node_tracks(course, tracks)
    IN  IF ts = <<>> THEN <<>> ELSE <<ts[1]>>

\* a variant without the fallback to the union
edge_tracks_InterOnly(src, dst, tracks) ==
    Sorted(Range(node_tracks(src, tracks)) \cap Range(node_tracks(dst, tracks)))

edge_tracks(src, dst, tracks) ==
    LET src_t == Range(node_tracks(src, tracks))
        dst_t == Range(node_tracks(dst, tracks))
        inter == Sorted(src_t \cap dst_t)
    IN  IF inter # <<>> THEN inter ELSE Sorted(src_t \cup dst_t)

----------------------------------------------------------------------------
(* build_cytoscape_elements.  A graph document is                          *)
(* [nodes: list of names, edges: list of <<s, t, p>>, tracks: dict];       *)
(* the optional positions only add a 'position' field and are left out.    *)

\* the focus sets after the two 'if selected_...' blocks
Focus(graph, selected_node, selected_edge) ==
    LET touching == {i \in DOMAIN graph.edges :
                        graph.edges[i][1] = selected_node
                        \/ graph.edges[i][2] = selected_node}
        byNode ==
            IF Truthy(selected_node)
            THEN [tracks    |-> Range(node_tracks(selected_node, graph.tracks)),
                  neighbors |-> UNION {{graph.edges[i][1], graph.edges[i][2]} :
                                          i \in touching},
                  edges     |-> {EdgeId(graph.edges[i][1], graph.edges[i][2]) :
                                          i \in touching}]
            ELSE [tracks |-> {}, neighbors |-> {}, edges |-> {}]
        parts == Split(selected_edge, ARROW)
    IN  IF Truthy(selected_edge) /\ Len(parts) = 2
        THEN [tracks    |-> byNode.tracks
                            \cup Range(edge_tracks(parts[1], parts[2], graph.tracks)),
              neighbors |-> byNode.neighbors \cup {parts[1], parts[2]},
              edges     |-> byNode.edges \cup {selected_edge}]
        ELSE byNode     \* not selected, or the unpacking raised: except ... pass

\* a variant that forgets the neighbourhood
NodeIsDim_IgnoresNeighbors(focus_mode, in_focus_track, is_neighbor) ==
    focus_mode /\ ~in_focus_track

\* if focus_mode: ... if (not in_focus_track) and (not is_neighbor): dim
NodeIsDim(focus_mode, in_focus_track, is_neighbor) ==
    focus_mode /\ ~in_focus_track /\ ~is_neighbor

NodeElement(graph, course, selected_node, selected_edge, course_to_uid) ==
    LET focus      == Focus(graph, selected_node, selected_edge)
        focus_mode == Truthy(selected_node) \/ Truthy(selected_edge)
        t_primary  == primary_track(course, graph.tracks)
        base_fill  == IF t_primary # <<>> /\ t_primary[1] \in DOMAIN TRACK_COLORS
                      THEN TRACK_COLORS[t_primary[1]] ELSE NODE_FILL_DEFAULT
        in_focus_track == \E t \in Range(node_tracks(course, graph.tracks)) :
                              t \in focus.tracks
        is_neighbor    == course \in focus.neighbors
        dim        == NodeIsDim(focus_mode, in_focus_track, is_neighbor)
        selected   == selected_node = course
    IN  [data |-> [id          |-> course_to_uid.val[course],
                   label       |-> course,
                   bg          |-> IF dim THEN DIM_COLOR ELSE base_fill,
                   opacity     |-> IF dim THEN NODE_OPACITY_DIM ELSE NODE_OPACITY,
                   border      |-> NODE_BORDER,
                   borderWidth |-> IF selected THEN BORDER_WIDTH_SELECTED
                                   ELSE BORDER_WIDTH],
         classes |-> Join((IF dim THEN <<TAG_DIM>> ELSE <<>>)
                          \o (IF selected THEN <<TAG_SELECTED>> ELSE <<>>), <<" ">>)]

\* a variant that forgets the selected pair
ShowLabel_IgnoresPair(s, t, selected_node, selected_edge) ==
    \/ s = t
    \/ s # t /\ Truthy(selected_node) /\ (s = selected_node \/ t = selected_node)

ShowLabel(s, t, selected_node, selected_edge) ==
    LET is_self == s = t
    IN  \/ is_self
        \/ ~is_self /\ Truthy(selected_node)
           /\ (s = selected_node \/ t = selected_node)
        \/ ~is_self /\ Truthy(selected_edge) /\ EdgeId(s, t) = selected_edge

\* a variant that forgets the tracks
EdgeInFocus_EdgesOnly(etracks, focus_tracks, course_eid, focus_edges) ==
    course_eid \in focus_edges

EdgeInFocus(etracks, focus_tracks, course_eid, focus_edges) ==
    Range(etracks) \cap focus_tracks # {} \/ course_eid \in focus_edges

EdgeElement(graph, e, selected_node, selected_edge, course_to_uid) ==
    LET s == e[1]
        t == e[2]
        p == e[3]
        focus      == Focus(graph, selected_node, selected_edge)
        focus_mode == Truthy(selected_node) \/ Truthy(selected_edge)
        src_uid    == course_to_uid.val[s]
        dst_uid    == course_to_uid.val[t]
        course_eid == EdgeId(s, t)
        is_self    == s = t
        show_label == ShowLabel(s, t, selected_node, selected_edge)
        styled     == focus_mode /\ ~is_self
        in_focus   == EdgeInFocus(edge_tracks(s, t, graph.tracks), focus.tracks,
                                  course_eid, focus.edges)
    IN  [data |-> [id      |-> EdgeId(src_uid, dst_uid),
                   source  |-> src_uid,
                   target  |-> dst_uid,
                   label   |-> IF show_label THEN friendly_percent(p) ELSE <<>>,
                   color   |-> IF ~styled THEN EDGE_COLOR
                               ELSE IF in_focus THEN EDGE_HIGHLIGHT ELSE DIM_COLOR,
                   opacity |-> IF ~styled THEN EDGE_OPACITY
                               ELSE IF in_focus THEN EDGE_OPACITY_FOCUS
                               ELSE EDGE_OPACITY_DIM],
         classes |-> Join((IF is_self THEN <<TAG_SELFLOOP>> ELSE <<>>)
                          \o (IF ~styled THEN <<>>
                              ELSE IF in_focus THEN <<TAG_FOCUS>> ELSE <<TAG_DIM>>),
                          <<" ">>)]

\* the node records in graph['nodes'] order, then the edge records in
\* graph['edges'] order
build_cytoscape_elements(graph, selected_node, selected_edge, course_to_uid, uid_to_course) ==
    [i \in 1..Len(graph.nodes) |->
        NodeElement(graph, graph.nodes[i], selected_node, selected_edge,
                    course_to_uid)]
    \o
    [i \in 1..Len(graph.edges) |->
        EdgeElement(graph, graph.edges[i], selected_node, selected_edge,
                    course_to_uid)]

----------------------------------------------------------------------------
(* Inputs of the single-call specifications *)

MaxCourses == 3
MaxNameLen == 2
MaxEdges   == 1

SeqsUpTo(S, n) == UNION {[1..k -> S] : k \in 0..n}

\* course names handed to make_unique_ids: every str over IdChars
IdChars == {"a", "A", " ", "-"}
IdNames == SeqsUpTo(IdChars, MaxNameLen)

\* course names of the graphs handed to build_cytoscape_elements
NameList == <<<<"a">>, <<"b">>, <<"c">>>>
Names    == Range(NameList)

TrackPool == {"Honors", "Regular"}

TrackKeySeqs == {ks \in SeqsUpTo(TrackPool, Cardinality(TrackPool)) :
                    \A i, j \in DOMAIN ks : i # j => ks[i] # ks[j]}

TrackDocs == UNION {{[keys |-> ks, val |-> f] : f \in [Range(ks) -> SUBSET Names]} :
                        ks \in TrackKeySeqs}

\* probabilities, in hundredths
Pcts == {20}

\* graph documents: the first two or all three names as nodes, edges between
\* nodes only (an edge naming no node raises KeyError at course_to_uid[s])
GraphDocs ==
    UNION {{[nodes |-> SubSeq(NameList, 1, n), edges |-> es, tracks |-> tr] :
                es \in SeqsUpTo(Range(SubSeq(NameList, 1, n))
                                \X Range(SubSeq(NameList, 1, n)) \X Pcts, MaxEdges),
                tr \in TrackDocs} :
           n \in 2..Len(NameList)}

\* selected_edge values that do not unpack into two parts, and the empty str
MalformedEdgeIds == {<<"a">>, <<"a", ARROW, "b", ARROW, "c">>, <<>>}

SelectionArgs ==
    {[selected_node |-> NoneVal, selected_edge |-> NoneVal]}
    \cup {[selected_node |-> n, selected_edge |-> NoneVal] : n \in Names}
    \cup {[selected_node |-> NoneVal, selected_edge |-> e] :
             e \in {EdgeId(x, y) : x, y \in Names} \cup MalformedEdgeIds}

Schools == Range(SCHOOL_FILES)

NoCall == /\ courses = <<>>
          /\ ids = NoneVal
          /\ et_args = <<>>
          /\ et = <<>>

NoPage == /\ school = SCHOOL_FILES[1]
          /\ cy_graph = NoneVal
          /\ render = NoneVal
          /\ event = "call"

----------------------------------------------------------------------------
(* SpecIds: one call of make_unique_ids *)

InitIds ==
    /\ courses \in SeqsUpTo(IdNames, MaxCourses)
    /\ ids = NoneVal
    /\ et_args = <<>>
    /\ et = <<>>
    /\ graphs = NoneVal
    /\ session_state = NoneVal
    /\ elements = <<>>
    /\ NoPage
    /\ pc = "start"

MakeUniqueIdsCall ==
    /\ pc = "start"
    /\ ids' = make_unique_ids(courses)
    /\ pc' = "done"
    /\ UNCHANGED <<graphs, school, session_state, cy_graph, elements, render,
                   event, courses, et_args, et>>

NextIds == MakeUniqueIdsCall

SpecIds == InitIds /\ [][NextIds]_vars

----------------------------------------------------------------------------
(* SpecTracks: one call of edge_tracks *)

InitTracks ==
    /\ \E tr \in TrackDocs :
          graphs = [s \in Schools |-> [nodes |-> NameList, edges |-> <<>>,
                                       tracks |-> tr]]
    /\ et_args \in Names \X Names
    /\ et = <<>>
    /\ courses = <<>>
    /\ ids = NoneVal
    /\ session_state = NoneVal
    /\ elements = <<>>
    /\ NoPage
    /\ pc = "start"

EdgeTracksCall ==
    /\ pc = "start"
    /\ et' = edge_tracks(et_args[1], et_args[2], graphs[school].tracks)
    /\ pc' = "done"
    /\ UNCHANGED <<graphs, school, session_state, cy_graph, elements, render,
                   event, courses, ids, et_args>>

NextTracks == EdgeTracksCall

SpecTracks == InitTracks /\ [][NextTracks]_vars

----------------------------------------------------------------------------
(* SpecBuild: one call of build_cytoscape_elements *)

InitBuild ==
    /\ \E g \in GraphDocs : graphs = [s \in Schools |-> g]
    /\ session_state \in SelectionArgs
    /\ elements = <<>>
    /\ NoCall
    /\ NoPage
    /\ pc = "start"

BuildCall ==
    /\ pc = "start"
    /\ \E m \in {make_unique_ids(graphs[school].nodes)} :
          elements' = build_cytoscape_elements(graphs[school],
                          session_state.selected_node,
                          session_state.selected_edge,
                          m.course_to_uid, m.uid_to_course)
    /\ pc' = "done"
    /\ UNCHANGED <<graphs, school, session_state, cy_graph, render, event,
                   courses, ids, et_args, et>>

NextBuild == BuildCall

SpecBuild == InitBuild /\ [][NextBuild]_vars

----------------------------------------------------------------------------
(* Spec: the page.  Every interaction reruns the script top to bottom.     *)

MaxNodes == 2

\* two course names with one slug: "a b" and "a-b" both give a_b
PageNames == {<<"a", " ", "b">>, <<"a", "-", "b">>}

\* the schools' data files: any node list over PageNames (a name may come
\* twice), a repeat loop on the first course and an arrow from each course to
\* the next one
ChainEdges(nodes) ==
    <<<<nodes[1], nodes[1], 20>>>>
    \o [i \in 1..(Len(nodes) - 1) |-> <<nodes[i], nodes[i + 1], 80>>]

PageGraphDocs ==
    {[nodes  |-> ns,
      edges  |-> ChainEdges(ns),
      tracks |-> [keys |-> <<"Regular">>, val |-> [t \in {"Regular"} |-> {ns[1]}]]] :
        ns \in SeqsUpTo(PageNames, MaxNodes) \ {<<>>}}

CY_DEFAULT == [nodes |-> <<>>, edges |-> <<>>]

SESSION_KEYS == {"selected_node", "selected_edge"}

\* if 'selected_node' not in st.session_state: ... = None (and selected_edge)
EnsureKeys(ss) ==
    [k \in SESSION_KEYS |-> IF k \in DOMAIN ss THEN ss[k] ELSE NoneVal]

\* {f"{course_to_uid[s]}→{course_to_uid[t]}": f"{s}→{t}" for (s, t, p) in edges},
\* over the first n edges
RECURSIVE EdgeUidToCourse(_, _, _)
EdgeUidToCourse(edges, n, course_to_uid) ==
    IF n = 0 THEN EmptyDict
    ELSE CHOOSE r \in {DictSet(acc,
                               EdgeId(course_to_uid.val[edges[n][1]],
                                      course_to_uid.val[edges[n][2]]),
                               EdgeId(edges[n][1], edges[n][2])) :
                           acc \in {EdgeUidToCourse(edges, n - 1, course_to_uid)}} :
                TRUE

\* a variant that leaves the other key as it was
ClickUpdate_KeepsOther(ss, selected, uid_to_course, edge_uid_to_course) ==
    IF selected.nodes # <<>>
    THEN [ss EXCEPT !.selected_node = DictGet(uid_to_course, selected.nodes[1])]
    ELSE IF selected.edges # <<>>
         THEN [ss EXCEPT !.selected_edge = DictGet(edge_uid_to_course,
                                                   selected.edges[1])]
         ELSE ss

\* if clicked_nodes: ... elif clicked_edges: ...
ClickUpdate(ss, selected, uid_to_course, edge_uid_to_course) ==
    IF selected.nodes # <<>>
    THEN [ss EXCEPT !.selected_node = DictGet(uid_to_course, selected.nodes[1]),
                    !.selected_edge = NoneVal]
    ELSE IF selected.edges # <<>>
         THEN [ss EXCEPT !.selected_edge = DictGet(edge_uid_to_course,
                                                   selected.edges[1]),
                         !.selected_node = NoneVal]
         ELSE ss

\* selected_node = None; selected_edge = None (st.rerun() follows)
ClearUpdate(ss) ==
    [ss EXCEPT !.selected_node = NoneVal, !.selected_edge = NoneVal]

\* one run of the script for school sch, the widget returning `selected`
\* if st.button('Clear selection'): ...
ButtonUpdate(ss2, clear_pressed) == IF clear_pressed THEN ClearUpdate(ss2) ELSE ss2

ScriptBody(sch, graph, ss1, m, selected, clear_pressed) ==
    [session_state |->
        ButtonUpdate(
            ClickUpdate(ss1, selected, m.uid_to_course,
                EdgeUidToCourse(graph.edges, Len(graph.edges), m.course_to_uid)),
            clear_pressed),
     elements |-> build_cytoscape_elements(graph, ss1.selected_node,
                      ss1.selected_edge, m.course_to_uid, m.uid_to_course),
     render   |-> [school        |-> sch,
                   selected_node |-> ss1.selected_node,
                   selected_edge |-> ss1.selected_edge]]

ScriptRun(sch, ss0, selected, clear_pressed) ==
    CHOOSE r \in {ScriptBody(sch, graphs[sch], ss1, m, selected, clear_pressed) :
                      ss1 \in {EnsureKeys(ss0)},
                      m \in {make_unique_ids(graphs[sch].nodes)}} : TRUE

Event(kind, course, pair) ==
    [kind |-> kind, course |-> course, pair |-> pair, before |-> session_state]

Apply(run) ==
    /\ session_state' = run.session_state
    /\ elements' = run.elements
    /\ render' = run.render

Init ==
    /\ graphs \in [Schools -> PageGraphDocs]
    /\ school = SCHOOL_FILES[1]
    /\ session_state = <<>>
    /\ cy_graph = CY_DEFAULT
    /\ elements = <<>>
    /\ render = NoneVal
    /\ event = [kind |-> "start", course |-> NoneVal, pair |-> NoneVal,
                before |-> <<>>]
    /\ NoCall
    /\ pc = "page"

Loaded == event.kind # "start"

InitialLoad ==
    /\ ~Loaded
    /\ \E run \in {ScriptRun(school, session_state, cy_graph, FALSE)} : Apply(run)
    /\ event' = Event("load", NoneVal, NoneVal)
    /\ UNCHANGED <<graphs, school, cy_graph, courses, ids, et_args, et, pc>>

IsEdgeElement(el) == "source" \in DOMAIN el.data

\* the user taps a circle: the widget reports its id and the script reruns
ClickNode ==
    /\ Loaded
    /\ \E i \in DOMAIN elements :
          /\ ~IsEdgeElement(elements[i])
          /\ cy_graph' = [nodes |-> <<elements[i].data.id>>, edges |-> <<>>]
          /\ \E run \in {ScriptRun(school, session_state, cy_graph', FALSE)} :
                Apply(run)
          /\ event' = Event("click_node", graphs[school].nodes[i], NoneVal)
    /\ UNCHANGED <<graphs, school, courses, ids, et_args, et, pc>>

\* the user taps an arrow
ClickEdge ==
    /\ Loaded
    /\ \E i \in DOMAIN elements :
          /\ IsEdgeElement(elements[i])
          /\ cy_graph' = [nodes |-> <<>>, edges |-> <<elements[i].data.id>>]
          /\ \E run \in {ScriptRun(school, session_state, cy_graph', FALSE)} :
                Apply(run)
          /\ LET e == graphs[school].edges[i - Len(graphs[school].nodes)]
             IN  event' = Event("click_edge", NoneVal, <<e[1], e[2]>>)
    /\ UNCHANGED <<graphs, school, courses, ids, et_args, et, pc>>

\* on a run no tap caused, the widget returns the value it holds, or its
\* default if the front end dropped it
WidgetValues == {cy_graph, CY_DEFAULT}

\* 'Clear selection': the run that sees the button, then the st.rerun() run
ClearSelection ==
    /\ Loaded
    /\ cy_graph' \in WidgetValues
    /\ \E pressed \in {ScriptRun(school, session_state, cy_graph', TRUE)} :
       \E run \in {ScriptRun(school, pressed.session_state, cy_graph', FALSE)} :
          Apply(run)
    /\ event' = Event("clear", NoneVal, NoneVal)
    /\ UNCHANGED <<graphs, school, courses, ids, et_args, et, pc>>

SwitchSchool ==
    /\ Loaded
    /\ school' \in Schools \ {school}
    /\ cy_graph' \in WidgetValues
    /\ \E run \in {ScriptRun(school', session_state, cy_graph', FALSE)} : Apply(run)
    /\ event' = Event("switch", NoneVal, NoneVal)
    /\ UNCHANGED <<graphs, courses, ids, et_args, et, pc>>

\* a rerun with nothing tapped and the same school
Rerender ==
    /\ Loaded
    /\ cy_graph' \in WidgetValues
    /\ \E run \in {ScriptRun(school, session_state, cy_graph', FALSE)} : Apply(run)
    /\ event' = Event("rerender", NoneVal, NoneVal)
    /\ UNCHANGED <<graphs, school, courses, ids, et_args, et, pc>>

Next ==
    \/ InitialLoad
    \/ ClickNode
    \/ ClickEdge
    \/ ClearSelection
    \/ SwitchSchool
    \/ Rerender

Spec == Init /\ [][Next]_vars

----------------------------------------------------------------------------
(* Reading the results *)

\* the tracks listing a course, read off the tracks document
Membership(course, tracks) == {t \in Range(tracks.keys) : course \in tracks.val[t]}

InterElseUnion(A, B) == IF A \cap B # {} THEN A \cap B ELSE A \cup B

HasClass(el, tag) == tag \in Range(Split(el.classes, " "))

TheGraph == graphs[school]
SelNode  == session_state.selected_node
SelEdge  == session_state.selected_edge

NodeEl(i) == elements[i]
EdgeEl(j) == elements[Len(TheGraph.nodes) + j]

Touches(e, course) == e[1] = course \/ e[2] = course

\* the selected pair as two names, <<>> if the identifier does not split in two
SelPair == IF SelEdge # NoneVal /\ Len(Split(SelEdge, ARROW)) = 2
           THEN Split(SelEdge, ARROW) ELSE <<>>

NodeDimmed(el) ==
    /\ HasClass(el, TAG_DIM)
    /\ el.data.opacity = NODE_OPACITY_DIM
    /\ el.data.bg = DIM_COLOR

NodeLit(el) ==
    /\ ~HasClass(el, TAG_DIM)
    /\ el.data.opacity = NODE_OPACITY
    /\ el.data.bg # DIM_COLOR

EdgeFocused(el) ==
    /\ HasClass(el, TAG_FOCUS) /\ ~HasClass(el, TAG_DIM)
    /\ el.data.color = EDGE_HIGHLIGHT
    /\ el.data.opacity = EDGE_OPACITY_FOCUS

EdgeDimmed(el) ==
    /\ HasClass(el, TAG_DIM) /\ ~HasClass(el, TAG_FOCUS)
    /\ el.data.color = DIM_COLOR
    /\ el.data.opacity = EDGE_OPACITY_DIM

EdgeNeutral(el) ==
    /\ ~HasClass(el, TAG_DIM) /\ ~HasClass(el, TAG_FOCUS)
    /\ el.data.color = EDGE_COLOR
    /\ el.data.opacity = EDGE_OPACITY

----------------------------------------------------------------------------
(* make_unique_ids (SpecIds) *)

\* C1: every entry of the list has an identifier, the entries' identifiers are
\* pairwise distinct, and the reverse map holds one identifier per entry and
\* sends each entry's identifier back to the entry's name.
C1_IdsDistinctAndInvertible ==
    pc = "done" =>
        /\ \A i \in DOMAIN courses : DictHas(ids.course_to_uid, courses[i])
        /\ \A i, j \in DOMAIN courses :
              i # j => ids.course_to_uid.val[courses[i]]
                       # ids.course_to_uid.val[courses[j]]
        /\ \A i \in DOMAIN courses :
              DictGet(ids.uid_to_course, ids.course_to_uid.val[courses[i]])
              = courses[i]
        /\ Cardinality(DOMAIN ids.uid_to_course.val) = Len(courses)

----------------------------------------------------------------------------
(* edge_tracks (SpecTracks) *)

\* C7: edge_tracks holds exactly the tracks shared by the two endpoints when
\* they share one, and otherwise every track of either endpoint, each once.
C7_EdgeTracksInterElseUnion ==
    pc = "done" =>
        /\ Range(et) = InterElseUnion(
                           Membership(et_args[1], TheGraph.tracks),
                           Membership(et_args[2], TheGraph.tracks))
        /\ Len(et) = Cardinality(Range(et))

C7_Witness ==
    /\ pc = "done"
    /\ Membership(et_args[1], TheGraph.tracks) = {"Honors", "Regular"}
    /\ Membership(et_args[2], TheGraph.tracks) = {"Honors"}
    /\ et = <<"Honors">>

----------------------------------------------------------------------------
(* build_cytoscape_elements (SpecBuild) *)

\* C3: with course A selected and no pair, a node is dimmed exactly when it is
\* in none of A's tracks and is no endpoint of an edge touching A; with no
\* selection no node is dimmed.
C3_NodeDimExactly ==
    pc = "done" /\ SelEdge = NoneVal =>
        \A i \in DOMAIN TheGraph.nodes :
            LET c == TheGraph.nodes[i]
                apart ==
                    /\ Membership(c, TheGraph.tracks)
                       \cap Membership(SelNode, TheGraph.tracks) = {}
                    /\ ~\E j \in DOMAIN TheGraph.edges :
                          /\ Touches(TheGraph.edges[j], SelNode)
                          /\ Touches(TheGraph.edges[j], c)
            IN  IF SelNode # NoneVal /\ apart
                THEN NodeDimmed(NodeEl(i)) ELSE NodeLit(NodeEl(i))

C3_Witness ==
    /\ pc = "done" /\ SelNode = <<"a">> /\ SelEdge = NoneVal
    /\ \E i, j \in DOMAIN TheGraph.nodes :
          /\ TheGraph.nodes[i] # SelNode /\ NodeDimmed(NodeEl(i))
          /\ TheGraph.nodes[j] # SelNode /\ NodeLit(NodeEl(j))

\* C6: a pair selection that does not split into two names, or names a course
\* that is no node, gives the records of a call with no selection.
C6_UnusablePairIsNoSelection ==
    pc = "done" /\ SelNode = NoneVal /\ SelEdge # NoneVal
    /\ (SelPair = <<>> \/ Range(SelPair) \ Range(TheGraph.nodes) # {})
    => \A i \in DOMAIN elements :
          IF i <= Len(TheGraph.nodes)
          THEN NodeLit(elements[i])
          ELSE \/ EdgeNeutral(elements[i])
               \/ TheGraph.edges[i - Len(TheGraph.nodes)][1]
                  = TheGraph.edges[i - Len(TheGraph.nodes)][2]

\* C8: a repeat loop always carries its percentage; any other edge carries one
\* exactly when it touches the selected course or is the selected pair.
C8_EdgeLabels ==
    pc = "done" =>
        \A j \in DOMAIN TheGraph.edges :
            LET e == TheGraph.edges[j]
                label == EdgeEl(j).data.label
            IN  IF e[1] = e[2]
                THEN label # <<>> /\ label = <<"2", "0", "%">>
                ELSE label # <<>> <=>
                        \/ SelNode # NoneVal /\ Touches(e, SelNode)
                        \/ SelPair = <<e[1], e[2]>>

C8_Witness ==
    /\ pc = "done" /\ SelEdge # NoneVal
    /\ \E j \in DOMAIN TheGraph.edges :
          /\ TheGraph.edges[j][1] # TheGraph.edges[j][2]
          /\ SelPair = <<TheGraph.edges[j][1], TheGraph.edges[j][2]>>
          /\ EdgeEl(j).data.label = <<"2", "0", "%">>

\* C9: the node of the selected course is tagged selected, has the wide
\* border and is not dimmed.
C9_SelectedNodeNeverDimmed ==
    pc = "done" /\ SelNode # NoneVal /\ SelEdge = NoneVal =>
        \A i \in DOMAIN TheGraph.nodes :
            TheGraph.nodes[i] = SelNode =>
                /\ HasClass(NodeEl(i), TAG_SELECTED)
                /\ NodeEl(i).data.borderWidth = BORDER_WIDTH_SELECTED
                /\ NodeLit(NodeEl(i))

\* the focus track set of the selection: the selected course's tracks, or
\* the selected pair's shared tracks, else the tracks of either end
FocusTrackSet ==
    IF SelNode # NoneVal THEN Membership(SelNode, TheGraph.tracks)
    ELSE IF SelPair # <<>>
         THEN InterElseUnion(Membership(SelPair[1], TheGraph.tracks),
                             Membership(SelPair[2], TheGraph.tracks))
         ELSE {}

\* C10: under a selection every non-self edge is either in focus or dimmed,
\* in focus exactly when its tracks meet the focus tracks, it is the selected
\* pair or it touches the selected course; with no selection it is neutral.
C10_EdgeFocusExactly ==
    pc = "done" =>
        \A j \in DOMAIN TheGraph.edges :
            LET e == TheGraph.edges[j]
                near ==
                    \/ InterElseUnion(Membership(e[1], TheGraph.tracks),
                                      Membership(e[2], TheGraph.tracks))
                       \cap FocusTrackSet # {}
                    \/ SelPair = <<e[1], e[2]>>
                    \/ SelNode # NoneVal /\ Touches(e, SelNode)
            IN  e[1] # e[2] =>
                    IF Truthy(SelNode) \/ Truthy(SelEdge)
                    THEN IF near THEN EdgeFocused(EdgeEl(j)) ELSE EdgeDimmed(EdgeEl(j))
                    ELSE EdgeNeutral(EdgeEl(j))

C10_Witness ==
    /\ pc = "done" /\ SelPair # <<>>
    /\ \E j \in DOMAIN TheGraph.edges :
          /\ TheGraph.edges[j][1] # TheGraph.edges[j][2]
          /\ SelPair # <<TheGraph.edges[j][1], TheGraph.edges[j][2]>>
          /\ EdgeFocused(EdgeEl(j))

----------------------------------------------------------------------------
(* the page (Spec) *)

\* C2: selected_node and selected_edge are never both set.
C2_SelectionExclusive ==
    Loaded =>
        /\ DOMAIN session_state = SESSION_KEYS
        /\ ~(SelNode # NoneVal /\ SelEdge # NoneVal)

C2_Witness ==
    /\ event.kind = "click_node"
    /\ event.before.selected_edge # NoneVal
    /\ SelNode # NoneVal

\* C4: a tap on a node element selects the course it was rendered for, a tap
\* on an edge element selects that edge's (source, target), and a rerun that
\* no tap, clear or school change caused leaves the selection as it was.
C4_ClickSelectsRendered ==
    /\ event.kind = "click_node" =>
          SelNode = event.course /\ SelEdge = NoneVal
    /\ event.kind = "click_edge" =>
          SelPair = event.pair /\ SelNode = NoneVal
    /\ event.kind = "rerender" => session_state = event.before

C4_Witness ==
    /\ event.kind = "rerender"
    /\ SelEdge # NoneVal
    /\ session_state = event.before

\* C5: the run that renders a newly chosen school derives its elements from
\* no selection.
C5_SwitchRendersNoSelection ==
    event.kind = "switch" =>
        render.selected_node = NoneVal /\ render.selected_edge = NoneVal

====
